---- MODULE Spec2Model ----
(***************************************************************************)
(* Model of backend/docs/tfnsw/trip_planner/analyze_responses.py:          *)
(*   - analyze_json_structure, the recursive key-path enumerator;          *)
(*   - the five summarize_* routines;                                       *)
(*   - main, the driver over the fixed list of ten fixture files.          *)
(*                                                                         *)
(* JSON values are tagged records: [t |-> "dict", items |-> <<[k, v]..>>], *)
(* [t |-> "list", items |-> <<v..>>] and scalars [t |-> <type name>,       *)
(* s |-> <str(value)>].  A dict keeps its keys in insertion order, as a    *)
(* Python dict does.  Python strings are TLA+ strings.                     *)
(***************************************************************************)
EXTENDS Integers, Sequences, FiniteSets, TLC

VARIABLES
    doc,          \* analyze_json_structure: the obj argument
    max_depth,    \* analyze_json_structure: the max_depth argument
    result,       \* analyze_json_structure: what the call produced
    apc,          \* "call" before the call, "returned" after it
    sdata,        \* summarize_*: the data argument
    summarizer,   \* the summarize_* routine that was called
    soutcome,     \* what it printed and whether it raised
    spc,          \* "call" before the call, "returned" after it
    idx,          \* main: the entry of files the for loop is at (from 1)
    pc,           \* main: the statement it is at
    file,         \* the file of the entry as the file system has it
    handles,      \* the paths of the files that are open
    pending,      \* the exception raised inside the with block, if any
    mdata,        \* main: data, the parsed document
    stdout,       \* the lines printed so far
    uncaught,     \* the exception that ended the run, if any
    trace         \* history: what was done with each entry examined so far

avars == <<doc, max_depth, result, apc>>
svars == <<sdata, summarizer, soutcome, spc>>
mvars == <<idx, pc, file, handles, pending, mdata, stdout, uncaught, trace>>

(***************************************************************************)
(* Bounds of the model.                                                    *)
(***************************************************************************)
MaxNest == 6          \* documents are nested up to MaxNest containers deep
MaxWide == 3          \* the innermost MaxWide levels take every wrapping
MaxLimit == 4         \* depth limits 0..MaxLimit are tried
MaxAbsent == 2        \* a fixture loses up to MaxAbsent keys or array items

DefaultMaxDepth == 4  \* def analyze_json_structure(..., max_depth=4)
ReprLimit == 50       \* repr(value)[:50]

(***************************************************************************)
(* Python values and primitives.                                           *)
(***************************************************************************)
Dict(items) == [t |-> "dict", items |-> items]
List(items) == [t |-> "list", items |-> items]
Scalar(type, str) == [t |-> type, s |-> str]
KV(key, value) == [k |-> key, v |-> value]

PyNone == Scalar("NoneType", "None")

isinstance(value, type) == value.t = type

\* len(value) of a dict or a list
len(value) == Len(value.items)

\* repr(value) of a scalar: a str is quoted, the other scalars print as str()
repr(value) == IF value.t = "str" THEN "'" \o value.s \o "'" ELSE value.s

\* s[:n]
SliceTo(s, n) == IF Len(s) <= n THEN s ELSE SubSeq(s, 1, n)

\* value[i] of a list (i counted from 0): IndexError past the end
GetItem(value, i) ==
    IF i < Len(value.items)
    THEN [exc |-> "none", v |-> value.items[i + 1]]
    ELSE [exc |-> "IndexError", v |-> PyNone]

(***************************************************************************)
(* The structure mapping: path string -> summary string.                   *)
(***************************************************************************)
EmptyMap == [p \in {} |-> ""]

\* structure[path] = summary, on an empty mapping
Single(path, summary) == [p \in {path} |-> summary]

\* structure.update(new): new's entries win
Update(structure, new) ==
    [p \in (DOMAIN structure) \cup (DOMAIN new) |->
        IF p \in DOMAIN new THEN new[p] ELSE structure[p]]

Ok(structure) == [exc |-> "none", structure |-> structure]
Raised(exc) == [exc |-> exc, structure |-> EmptyMap]

\* path = f"{prefix}.{key}" if prefix else key
PathOf(prefix, key) == IF prefix # "" THEN prefix \o "." \o key ELSE key

\* Variant: the count printed is the number of items below the first.
ObjectSummary_OffByOne(value) == "object (" \o ToString(len(value) - 1) \o " keys)"

ObjectSummary(value) == "object (" \o ToString(len(value)) \o " keys)"
ArraySummary(value) == "array (" \o ToString(len(value)) \o " items)"
ScalarSummary(value) == value.t \o ": " \o SliceTo(repr(value), ReprLimit)

RECURSIVE analyze_json_structure(_, _, _, _)
RECURSIVE ValueEntries(_, _, _, _)
RECURSIVE AnalyzeItems(_, _, _, _, _, _)

\* Variant: the element looked at is the last one, not element 0.
FirstElementEntries_LastElement(value, path, depth, maxd) ==
    LET first == GetItem(value, len(value) - 1)
    IN  IF first.exc # "none" THEN Raised(first.exc)
        ELSE IF isinstance(first.v, "dict")
        THEN analyze_json_structure(first.v, path \o "[0]", depth + 1, maxd)
        ELSE Ok(EmptyMap)

\* if isinstance(value[0], dict): structure.update(analyze_json_structure(value[0], f"{path}[0]", ...))
FirstElementEntries(value, path, depth, maxd) ==
    LET first == GetItem(value, 0)
    IN  IF first.exc # "none" THEN Raised(first.exc)
        ELSE IF isinstance(first.v, "dict")
        THEN analyze_json_structure(first.v, path \o "[0]", depth + 1, maxd)
        ELSE Ok(EmptyMap)

\* Variant: value[0] is read without the len(value) > 0 test.
ValueEntries_NoLenTest(value, path, depth, maxd) ==
    IF isinstance(value, "dict")
    THEN LET sub == analyze_json_structure(value, path, depth + 1, maxd)
         IN  IF sub.exc # "none" THEN sub
             ELSE Ok(Update(Single(path, ObjectSummary(value)), sub.structure))
    ELSE IF isinstance(value, "list")
    THEN LET sub == FirstElementEntries(value, path, depth, maxd)
         IN  IF sub.exc # "none" THEN sub
             ELSE Ok(Update(Single(path, ArraySummary(value)), sub.structure))
    ELSE Ok(Single(path, ScalarSummary(value)))

\* The body of the for loop for one (key, value): the entries it writes, in
\* the order it writes them.
ValueEntries(value, path, depth, maxd) ==
    IF isinstance(value, "dict")
    THEN LET sub == analyze_json_structure(value, path, depth + 1, maxd)
         IN  IF sub.exc # "none" THEN sub
             ELSE Ok(Update(Single(path, ObjectSummary(value)), sub.structure))
    ELSE IF isinstance(value, "list")
    THEN IF len(value) > 0
         THEN LET sub == FirstElementEntries(value, path, depth, maxd)
              IN  IF sub.exc # "none" THEN sub
                  ELSE Ok(Update(Single(path, ArraySummary(value)), sub.structure))
         ELSE Ok(Single(path, "array (empty)"))
    ELSE Ok(Single(path, ScalarSummary(value)))

\* for key, value in obj.items(): from the i-th item on
AnalyzeItems(items, i, prefix, depth, maxd, structure) ==
    IF i > Len(items) THEN Ok(structure)
    ELSE LET path == PathOf(prefix, items[i].k)
             entries == ValueEntries(items[i].v, path, depth, maxd)
         IN  IF entries.exc # "none" THEN entries
             ELSE AnalyzeItems(items, i + 1, prefix, depth, maxd,
                               Update(structure, entries.structure))

\* Variant: the test lets one more level through.
DepthExceeded_OneMore(depth, maxd) == depth > maxd + 1

\* if depth > max_depth: return {}
DepthExceeded(depth, maxd) == depth > maxd

\* Variant: a top-level array is entered through its element 0.
analyze_json_structure_EntersList(obj, prefix, depth, maxd) ==
    IF DepthExceeded(depth, maxd) THEN Ok(EmptyMap)
    ELSE IF isinstance(obj, "dict")
    THEN AnalyzeItems(obj.items, 1, prefix, depth, maxd, EmptyMap)
    ELSE IF isinstance(obj, "list") /\ len(obj) > 0
    THEN analyze_json_structure(obj.items[1], prefix \o "[0]", depth + 1, maxd)
    ELSE Ok(EmptyMap)

analyze_json_structure(obj, prefix, depth, maxd) ==
    IF DepthExceeded(depth, maxd) THEN Ok(EmptyMap)
    ELSE IF isinstance(obj, "dict")
    THEN AnalyzeItems(obj.items, 1, prefix, depth, maxd, EmptyMap)
    ELSE Ok(EmptyMap)

(***************************************************************************)
(* Documents the analyzer is applied to: the values built from the leaves   *)
(* by at most MaxNest wrappings.                                           *)
(***************************************************************************)
LongStr == "0123456789012345678901234567890123456789012345678901234567890"

Leaves == { Scalar("int", "1"), Scalar("str", LongStr), Dict(<<>>), List(<<>>) }

\* a mapping of one key, a mapping whose second key repeats the path of a
\* key below the first, an array of one item, an array whose item 1 is v
Wrappings(v) ==
    { Dict(<<KV("a", v)>>),
      Dict(<<KV("a", v), KV("a.a", v)>>),
      List(<<v>>),
      List(<<Scalar("int", "1"), v>>) }

ChainWrappings(v) == { Dict(<<KV("a", v)>>), List(<<v>>) }

\* the values nested n containers deep: every wrapping for the innermost
\* MaxWide levels, the chain wrappings around them
RECURSIVE Documents(_)
Documents(n) ==
    IF n = 0 THEN Leaves
    ELSE LET inner == Documents(n - 1)
         IN  inner \cup UNION { IF n <= MaxWide THEN Wrappings(v)
                                               ELSE ChainWrappings(v) : v \in inner }

NotCalled == [exc |-> "not called", structure |-> EmptyMap]

\* result = analyze_json_structure(doc, max_depth=max_depth)
Analyze ==
    /\ apc = "call"
    /\ result' = analyze_json_structure(doc, "", 0, max_depth)
    /\ apc' = "returned"
    /\ UNCHANGED <<doc, max_depth, svars, mvars>>

(***************************************************************************)
(* Python values as the summarizers use them.  An expression that raises   *)
(* evaluates to an error value, which every operation passes on; a        *)
(* statement whose expression is an error value is where the run stops.    *)
(***************************************************************************)
Err(exc) == [t |-> "error", exc |-> exc]
IsErr(v) == v.t = "error"

PyStr(s) == Scalar("str", s)
PyInt(n) == Scalar("int", ToString(n))
PyFloat(s) == Scalar("float", s)
PyTrue == Scalar("bool", "True")
EmptyDict == Dict(<<>>)
EmptyList == List(<<>>)

HasKey(d, key) == \E i \in 1..Len(d.items) : d.items[i].k = key
Lookup(d, key) == d.items[CHOOSE i \in 1..Len(d.items) : d.items[i].k = key].v

\* d.get(key, default): AttributeError when d has no get method
get(d, key, default) ==
    IF IsErr(d) THEN d
    ELSE IF d.t # "dict" THEN Err("AttributeError")
    ELSE IF HasKey(d, key) THEN Lookup(d, key)
    ELSE default

\* d.get(key)
get1(d, key) == get(d, key, PyNone)

\* len(v): TypeError when v has no len
py_len(v) ==
    IF IsErr(v) THEN v
    ELSE IF v.t \in {"dict", "list"} THEN PyInt(Len(v.items))
    ELSE IF v.t = "str" THEN PyInt(Len(v.s))
    ELSE Err("TypeError")

\* bool(v), as an if statement tests it
truthy(v) ==
    IF IsErr(v) THEN FALSE
    ELSE IF v.t \in {"dict", "list"} THEN Len(v.items) > 0
    ELSE IF v.t = "str" THEN v.s # ""
    ELSE IF v.t = "NoneType" THEN FALSE
    ELSE v.s \notin {"False", "0", "0.0"}

\* v[0]
first(v) ==
    IF IsErr(v) THEN v
    ELSE IF v.t = "list" THEN GetItem(v, 0).v
    ELSE IF v.t = "str" /\ v.s # "" THEN PyStr(SubSeq(v.s, 1, 1))
    ELSE IF v.t = "str" THEN Err("IndexError")
    ELSE IF v.t = "dict" THEN Err("KeyError")
    ELSE Err("TypeError")

\* v[:n]
slice(v, n) ==
    IF IsErr(v) THEN v
    ELSE IF v.t = "str" THEN PyStr(SliceTo(v.s, n))
    ELSE IF v.t = "list" THEN List(SubSeq(v.items, 1, IF Len(v.items) <= n THEN Len(v.items) ELSE n))
    ELSE Err("TypeError")

\* list(v.keys())
key_list(v) ==
    IF IsErr(v) THEN v
    ELSE IF v.t # "dict" THEN Err("AttributeError")
    ELSE List([i \in 1..Len(v.items) |-> PyStr(v.items[i].k)])

RECURSIVE py_repr(_)
RECURSIVE JoinRepr(_, _, _)

\* the items from the i-th on, separated by ", "; a dict prints 'key': value
JoinRepr(v, i, sep) ==
    IF i > Len(v.items) THEN ""
    ELSE sep \o (IF v.t = "dict"
                 THEN "'" \o v.items[i].k \o "': " \o py_repr(v.items[i].v)
                 ELSE py_repr(v.items[i]))
             \o JoinRepr(v, i + 1, ", ")

\* repr(v) of any value
py_repr(v) ==
    IF v.t = "dict" THEN "{" \o JoinRepr(v, 1, "") \o "}"
    ELSE IF v.t = "list" THEN "[" \o JoinRepr(v, 1, "") \o "]"
    ELSE repr(v)

\* str(v), as an f-string formats it
py_str(v) == IF v.t = "str" THEN v.s ELSE py_repr(v)

(***************************************************************************)
(* Statements.  A summarizer is a sequence of steps; a step is a printed   *)
(* line or an exception.                                                   *)
(***************************************************************************)
Printed(text) == [exc |-> "none", text |-> text]
Raise(exc) == [exc |-> exc, text |-> ""]

\* print(<literal>)
Say(text) == <<Printed(text)>>

\* print(f"<label>{v}<suffix>")
Show(label, v, suffix) ==
    IF IsErr(v) THEN <<Raise(v.exc)>>
    ELSE <<Printed(label \o py_str(v) \o suffix)>>

\* print(f"<label>{v}<mid>{w}")
Show2(label, v, mid, w) ==
    IF IsErr(v) THEN <<Raise(v.exc)>>
    ELSE IF IsErr(w) THEN <<Raise(w.exc)>>
    ELSE <<Printed(label \o py_str(v) \o mid \o py_str(w))>>

\* <name> = v
Assign(v) == IF IsErr(v) THEN <<Raise(v.exc)>> ELSE <<>>

\* if v: <steps>
IfTrue(v, steps) == IF truthy(v) THEN steps ELSE <<>>

FirstRaise(steps) ==
    IF \E i \in 1..Len(steps) : steps[i].exc # "none"
    THEN CHOOSE i \in 1..Len(steps) :
            /\ steps[i].exc # "none"
            /\ \A j \in 1..(i - 1) : steps[j].exc = "none"
    ELSE 0

\* the lines printed up to the first exception, and that exception
Run(steps) ==
    LET r == FirstRaise(steps)
    IN  IF r = 0
        THEN [exc |-> "none", out |-> [i \in 1..Len(steps) |-> steps[i].text]]
        ELSE [exc |-> steps[r].exc, out |-> [i \in 1..(r - 1) |-> steps[i].text]]

(***************************************************************************)
(* The five summarizers: the steps of each, in source order.               *)
(***************************************************************************)
StopFinderFirstLocation(loc) ==
    Say("\nFirst location structure:")
    \o Show("  - id: ", get1(loc, "id"), "")
    \o Show("  - name: ", get1(loc, "name"), "")
    \o Show("  - disassembledName: ", get1(loc, "disassembledName"), "")
    \o Show("  - type: ", get1(loc, "type"), "")
    \o Show("  - coord: ", get1(loc, "coord"), "")
    \o Show("  - modes: ", get1(loc, "modes"), "")
    \o Show("  - matchQuality: ", get1(loc, "matchQuality"), "")
    \o Show("  - isBest: ", get1(loc, "isBest"), "")
    \o (IF IsErr(get1(loc, "parent")) THEN <<Raise(get1(loc, "parent").exc)>>
        ELSE IF truthy(get1(loc, "parent"))
        THEN Show("  - parent: ", get1(get(loc, "parent", EmptyDict), "name"), "")
        ELSE Show("  - parent: ", PyStr("None"), ""))
    \o LET props == get(loc, "properties", EmptyDict)
       IN  Assign(props)
           \o IfTrue(props, Show("  - properties keys: ", slice(key_list(props), 10), ""))

summarize_stop_finder(data) ==
    LET locations == get(data, "locations", EmptyList)
    IN  Run(Say("\n=== STOP FINDER RESPONSE ===")
            \o Show("Version: ", get1(data, "version"), "")
            \o Assign(locations)
            \o Show("Locations count: ", py_len(locations), "")
            \o IfTrue(locations,
                      LET loc == first(locations)
                      IN  Assign(loc) \o StopFinderFirstLocation(loc)))

DepartureFirstEvent(event) ==
    LET loc == get(event, "location", EmptyDict)
        trans == get(event, "transportation", EmptyDict)
        infos == get(event, "infos", EmptyList)
        onwards == get(event, "onwardLocations", EmptyList)
    IN  Say("\nFirst stop event structure:")
        \o Show("  - departureTimePlanned: ", get1(event, "departureTimePlanned"), "")
        \o Show("  - departureTimeEstimated: ", get1(event, "departureTimeEstimated"), "")
        \o Show("  - isRealtimeControlled: ", get1(event, "isRealtimeControlled"), "")
        \o Assign(loc)
        \o Show("  - location.name: ", get1(loc, "name"), "")
        \o Show("  - location.type: ", get1(loc, "type"), "")
        \o Show("  - location.properties: ",
                slice(key_list(get(loc, "properties", EmptyDict)), 5), "")
        \o Assign(trans)
        \o Show("  - transportation.number: ", get1(trans, "number"), "")
        \o Show("  - transportation.name: ", get1(trans, "name"), "")
        \o Show("  - transportation.iconId: ", get1(trans, "iconId"), "")
        \o Show("  - transportation.product.class: ",
                get1(get(trans, "product", EmptyDict), "class"), "")
        \o Show("  - transportation.destination.name: ",
                get1(get(trans, "destination", EmptyDict), "name"), "")
        \o Assign(infos)
        \o Show("  - infos count: ", py_len(infos), "")
        \o Assign(onwards)
        \o IfTrue(onwards,
                  LET ow == first(onwards)
                  IN  Show("  - onwardLocations count: ", py_len(onwards), "")
                      \o Assign(ow)
                      \o Show("    - first onwards: ", get1(ow, "name"), "")
                      \o Show("    - properties: ",
                              key_list(get(ow, "properties", EmptyDict)), ""))

summarize_departure_mon(data) ==
    LET locations == get(data, "locations", EmptyList)
        stop_events == get(data, "stopEvents", EmptyList)
    IN  Run(Say("\n=== DEPARTURE MONITOR RESPONSE ===")
            \o Show("Version: ", get1(data, "version"), "")
            \o Assign(locations)
            \o Show("Locations count: ", py_len(locations), "")
            \o Assign(stop_events)
            \o Show("Stop events count: ", py_len(stop_events), "")
            \o IfTrue(stop_events,
                      LET event == first(stop_events)
                      IN  Assign(event) \o DepartureFirstEvent(event)))

TripFirstTicket(tickets) ==
    LET t == first(tickets)
    IN  Assign(t)
        \o Show2("    - first ticket: ", get1(t, "name"), " - person: ", get1(t, "person"))
        \o Show("    - priceBrutto: ", get1(t, "priceBrutto"), "")
        \o Show("    - properties keys: ",
                slice(key_list(get(t, "properties", EmptyDict)), 8), "")

TripFirstLeg(leg) ==
    LET origin == get(leg, "origin", EmptyDict)
        dest == get(leg, "destination", EmptyDict)
        trans == get(leg, "transportation", EmptyDict)
        stop_seq == get(leg, "stopSequence", EmptyList)
        coords == get(leg, "coords", EmptyList)
        infos == get(leg, "infos", EmptyList)
        hints == get(leg, "hints", EmptyList)
        props == get(leg, "properties", EmptyDict)
    IN  Say("\n  First leg structure:")
        \o Show("    - duration: ", get1(leg, "duration"), " seconds")
        \o Show("    - distance: ", get1(leg, "distance"), " meters")
        \o Show("    - isRealtimeControlled: ", get1(leg, "isRealtimeControlled"), "")
        \o Assign(origin)
        \o Show("    - origin.name: ", get1(origin, "name"), "")
        \o Show("    - origin.departureTimePlanned: ", get1(origin, "departureTimePlanned"), "")
        \o Show("    - origin.departureTimeEstimated: ", get1(origin, "departureTimeEstimated"), "")
        \o Show("    - origin.properties keys: ",
                key_list(get(origin, "properties", EmptyDict)), "")
        \o Assign(dest)
        \o Show("    - destination.name: ", get1(dest, "name"), "")
        \o Assign(trans)
        \o Show("    - transportation.number: ", get1(trans, "number"), "")
        \o Show("    - transportation.product.class: ",
                get1(get(trans, "product", EmptyDict), "class"), "")
        \o Assign(stop_seq)
        \o Show("    - stopSequence count: ", py_len(stop_seq), "")
        \o Assign(coords)
        \o Show("    - coords count: ", py_len(coords), "")
        \o Assign(infos)
        \o Show("    - infos (alerts) count: ", py_len(infos), "")
        \o IfTrue(infos,
                  LET info == first(infos)
                  IN  Assign(info)
                      \o Show("      - first alert: ",
                              slice(get(info, "subtitle", get(info, "title", PyStr("N/A"))), 60),
                              ""))
        \o Assign(hints)
        \o Show("    - hints count: ", py_len(hints), "")
        \o Assign(props)
        \o Show("    - properties keys: ", key_list(props), "")

TripFirstJourney(journey) ==
    LET legs == get(journey, "legs", EmptyList)
        fare == get(journey, "fare", EmptyDict)
        tickets == get(fare, "tickets", EmptyList)
    IN  Say("\nFirst journey structure:")
        \o Show("  - interchanges: ", get1(journey, "interchanges"), "")
        \o Show("  - isAdditional: ", get1(journey, "isAdditional"), "")
        \o Assign(legs)
        \o Show("  - legs count: ", py_len(legs), "")
        \o Assign(fare)
        \o Assign(tickets)
        \o Show("  - fare.tickets count: ", py_len(tickets), "")
        \o IfTrue(tickets, TripFirstTicket(tickets))
        \o IfTrue(legs, LET leg == first(legs) IN Assign(leg) \o TripFirstLeg(leg))

summarize_trip(data) ==
    LET journeys == get(data, "journeys", EmptyList)
    IN  Run(Say("\n=== TRIP RESPONSE ===")
            \o Show("Version: ", get1(data, "version"), "")
            \o Assign(journeys)
            \o Show("Journeys count: ", py_len(journeys), "")
            \o IfTrue(journeys,
                      LET journey == first(journeys)
                      IN  Assign(journey) \o TripFirstJourney(journey)))

AddInfoFirstAlert(alert) ==
    LET ts == get(alert, "timestamps", EmptyDict)
        affected == get(alert, "affected", EmptyDict)
        props == get(alert, "properties", EmptyDict)
    IN  Say("\nFirst alert structure:")
        \o Show("  - id: ", get1(alert, "id"), "")
        \o Show("  - version: ", get1(alert, "version"), "")
        \o Show("  - type: ", get1(alert, "type"), "")
        \o Show("  - priority: ", get1(alert, "priority"), "")
        \o Show("  - subtitle: ", slice(get(alert, "subtitle", PyStr("N/A")), 60), "")
        \o Show("  - content length: ", py_len(get(alert, "content", PyStr(""))), "")
        \o Show("  - url: ", slice(get(alert, "url", PyStr("N/A")), 50), "")
        \o Assign(ts)
        \o Show("  - timestamps.creation: ", get1(ts, "creation"), "")
        \o Show("  - timestamps.lastModification: ", get1(ts, "lastModification"), "")
        \o Show("  - timestamps.validity count: ", py_len(get(ts, "validity", EmptyList)), "")
        \o Assign(affected)
        \o Show("  - affected.lines count: ", py_len(get(affected, "lines", EmptyList)), "")
        \o Show("  - affected.stops count: ", py_len(get(affected, "stops", EmptyList)), "")
        \o Assign(props)
        \o Show("  - properties keys: ", key_list(props), "")

summarize_add_info(data) ==
    LET infos == get(data, "infos", EmptyDict)
        current == get(infos, "current", EmptyList)
        affected == get(infos, "affected", EmptyDict)
    IN  Run(Say("\n=== ADD_INFO (SERVICE ALERTS) RESPONSE ===")
            \o Show("Version: ", get1(data, "version"), "")
            \o Show("Timestamp: ", get1(data, "timestamp"), "")
            \o Assign(infos)
            \o Assign(current)
            \o Show("Current alerts count: ", py_len(current), "")
            \o Assign(affected)
            \o Show("Total affected stops: ", py_len(get(affected, "stops", EmptyList)), "")
            \o Show("Total affected lines: ", py_len(get(affected, "lines", EmptyList)), "")
            \o IfTrue(current,
                      LET alert == first(current)
                      IN  Assign(alert) \o AddInfoFirstAlert(alert)))

\* Variant: properties is looked up without the {} default.
summarize_coord_NoDefault(data) ==
    LET locations == get(data, "locations", EmptyList)
    IN  Run(Say("\n=== COORD (NEARBY) RESPONSE ===")
            \o Show("Version: ", get1(data, "version"), "")
            \o Assign(locations)
            \o Show("Locations count: ", py_len(locations), "")
            \o IfTrue(locations,
                      LET loc == first(locations)
                          props == get1(loc, "properties")
                      IN  Assign(loc)
                          \o Say("\nFirst location structure:")
                          \o Show("  - id: ", get1(loc, "id"), "")
                          \o Show("  - name: ", get1(loc, "name"), "")
                          \o Show("  - type: ", get1(loc, "type"), "")
                          \o Show("  - coord: ", get1(loc, "coord"), "")
                          \o Assign(props)
                          \o Show("  - properties.distance: ", get1(props, "distance"), "")
                          \o Show("  - properties keys: ", slice(key_list(props), 10), "")))

summarize_coord(data) ==
    LET locations == get(data, "locations", EmptyList)
    IN  Run(Say("\n=== COORD (NEARBY) RESPONSE ===")
            \o Show("Version: ", get1(data, "version"), "")
            \o Assign(locations)
            \o Show("Locations count: ", py_len(locations), "")
            \o IfTrue(locations,
                      LET loc == first(locations)
                          props == get(loc, "properties", EmptyDict)
                      IN  Assign(loc)
                          \o Say("\nFirst location structure:")
                          \o Show("  - id: ", get1(loc, "id"), "")
                          \o Show("  - name: ", get1(loc, "name"), "")
                          \o Show("  - type: ", get1(loc, "type"), "")
                          \o Show("  - coord: ", get1(loc, "coord"), "")
                          \o Assign(props)
                          \o Show("  - properties.distance: ", get1(props, "distance"), "")
                          \o Show("  - properties keys: ", slice(key_list(props), 10), "")))

(***************************************************************************)
(* Documents the summarizers are applied to: one response of each of the   *)
(* five shapes, carrying every key its summarizer looks up, and what is    *)
(* left of it when up to MaxAbsent keys or array items are taken away.     *)
(***************************************************************************)
LongSubtitle == "Buses replace trains between Epping and Chatswood this weekend"

StopFinderDoc ==
    Dict(<<KV("version", PyStr("10.2.1.42")),
           KV("locations", List(<<
               Dict(<<KV("id", PyStr("10101229")),
                      KV("name", PyStr("Epping Station")),
                      KV("disassembledName", PyStr("Epping")),
                      KV("type", PyStr("stop")),
                      KV("coord", List(<<PyFloat("-33.77"), PyFloat("151.08")>>)),
                      KV("modes", List(<<PyInt(1)>>)),
                      KV("matchQuality", PyInt(100000)),
                      KV("isBest", PyTrue),
                      KV("parent", Dict(<<KV("name", PyStr("Epping"))>>)),
                      KV("properties", Dict(<<KV("stopId", PyStr("2121"))>>))>>)>>))>>)

DepartureMonDoc ==
    Dict(<<KV("version", PyStr("10.2.1.42")),
           KV("locations", List(<<Dict(<<KV("id", PyStr("10111010"))>>)>>)),
           KV("stopEvents", List(<<
               Dict(<<KV("departureTimePlanned", PyStr("2024-01-01T00:00:00Z")),
                      KV("departureTimeEstimated", PyStr("2024-01-01T00:01:00Z")),
                      KV("isRealtimeControlled", PyTrue),
                      KV("location", Dict(<<KV("name", PyStr("Central")),
                                            KV("type", PyStr("platform")),
                                            KV("properties", Dict(<<KV("stopId", PyStr("2000"))>>))>>)),
                      KV("transportation", Dict(<<KV("number", PyStr("T1")),
                                                  KV("name", PyStr("Sydney Trains")),
                                                  KV("iconId", PyInt(1)),
                                                  KV("product", Dict(<<KV("class", PyInt(1))>>)),
                                                  KV("destination", Dict(<<KV("name", PyStr("Hornsby"))>>))>>)),
                      KV("infos", List(<<Dict(<<KV("id", PyStr("a1"))>>)>>)),
                      KV("onwardLocations", List(<<
                          Dict(<<KV("name", PyStr("Redfern")),
                                 KV("properties", Dict(<<KV("platform", PyStr("1"))>>))>>)>>))>>)>>))>>)

TripDoc ==
    Dict(<<KV("version", PyStr("10.2.1.42")),
           KV("journeys", List(<<
               Dict(<<KV("interchanges", PyInt(0)),
                      KV("isAdditional", PyTrue),
                      KV("legs", List(<<
                          Dict(<<KV("duration", PyInt(600)),
                                 KV("distance", PyInt(9000)),
                                 KV("isRealtimeControlled", PyTrue),
                                 KV("origin", Dict(<<KV("name", PyStr("Epping")),
                                                     KV("departureTimePlanned", PyStr("2024-01-01T00:00:00Z")),
                                                     KV("departureTimeEstimated", PyStr("2024-01-01T00:01:00Z")),
                                                     KV("properties", Dict(<<KV("platform", PyStr("1"))>>))>>)),
                                 KV("destination", Dict(<<KV("name", PyStr("Central"))>>)),
                                 KV("transportation", Dict(<<KV("number", PyStr("T9")),
                                                             KV("product", Dict(<<KV("class", PyInt(1))>>))>>)),
                                 KV("stopSequence", List(<<Dict(<<KV("name", PyStr("Epping"))>>)>>)),
                                 KV("coords", List(<<List(<<PyFloat("-33.77"), PyFloat("151.08")>>)>>)),
                                 KV("infos", List(<<Dict(<<KV("subtitle", PyStr(LongSubtitle)),
                                                           KV("title", PyStr("Trackwork"))>>)>>)),
                                 KV("hints", List(<<Dict(<<KV("infoText", PyStr("Lift"))>>)>>)),
                                 KV("properties", Dict(<<KV("lineType", PyStr("train"))>>))>>)>>)),
                      KV("fare", Dict(<<KV("tickets", List(<<
                          Dict(<<KV("name", PyStr("Opal")),
                                 KV("person", PyStr("ADULT")),
                                 KV("priceBrutto", PyFloat("4.2")),
                                 KV("properties", Dict(<<KV("riderCategoryName", PyStr("Adult"))>>))>>)>>))>>))>>)>>))>>)

AddInfoDoc ==
    Dict(<<KV("version", PyStr("10.2.1.42")),
           KV("timestamp", PyStr("2024-01-01T00:00:00Z")),
           KV("infos", Dict(<<
               KV("current", List(<<
                   Dict(<<KV("id", PyStr("ems-1")),
                          KV("version", PyInt(2)),
                          KV("type", PyStr("lineInfo")),
                          KV("priority", PyStr("normal")),
                          KV("subtitle", PyStr(LongSubtitle)),
                          KV("content", PyStr("<div>text</div>")),
                          KV("url", PyStr("https://transportnsw.info/alerts/details")),
                          KV("timestamps", Dict(<<KV("creation", PyStr("2024-01-01T00:00:00Z")),
                                                  KV("lastModification", PyStr("2024-01-02T00:00:00Z")),
                                                  KV("validity", List(<<Dict(<<KV("from", PyStr("2024-01-01"))>>)>>))>>)),
                          KV("affected", Dict(<<KV("lines", List(<<Dict(<<KV("id", PyStr("T9"))>>)>>)),
                                                KV("stops", List(<<Dict(<<KV("id", PyStr("2121"))>>)>>))>>)),
                          KV("properties", Dict(<<KV("publisher", PyStr("ems"))>>))>>)>>)),
               KV("affected", Dict(<<KV("stops", List(<<Dict(<<KV("id", PyStr("2121"))>>)>>)),
                                     KV("lines", List(<<Dict(<<KV("id", PyStr("T9"))>>)>>))>>))>>))>>)

CoordDoc ==
    Dict(<<KV("version", PyStr("10.2.1.42")),
           KV("locations", List(<<
               Dict(<<KV("id", PyStr("poi-1")),
                      KV("name", PyStr("Epping Park")),
                      KV("type", PyStr("poi")),
                      KV("coord", List(<<PyFloat("-33.77"), PyFloat("151.08")>>)),
                      KV("properties", Dict(<<KV("distance", PyInt(120))>>))>>)>>))>>)

FullDocs == {StopFinderDoc, DepartureMonDoc, TripDoc, AddInfoDoc, CoordDoc}

\* a step of a path: a key of a dict, or "#i" for item i of a list
StepOf(v, i) == IF v.t = "dict" THEN v.items[i].k ELSE "#" \o ToString(i)
IsContainer(v) == v.t \in {"dict", "list"}

\* the paths of all keys and array items of v
RECURSIVE PathsIn(_)
PathsIn(v) ==
    IF ~IsContainer(v) THEN {}
    ELSE UNION { {<<StepOf(v, i)>>}
                   \cup { <<StepOf(v, i)>> \o q :
                            q \in PathsIn(IF v.t = "dict" THEN v.items[i].v ELSE v.items[i]) }
                 : i \in 1..Len(v.items) }

\* v without the keys and items at the paths of gone
RECURSIVE Without(_, _)
Without(v, gone) ==
    IF ~IsContainer(v) \/ gone = {} THEN v
    ELSE LET kept == SelectSeq([i \in 1..Len(v.items) |-> i],
                               LAMBDA i : <<StepOf(v, i)>> \notin gone)
             below(i) == { Tail(q) : q \in { r \in gone : Len(r) > 1 /\ Head(r) = StepOf(v, i) } }
         IN  [t |-> v.t,
              items |-> [n \in 1..Len(kept) |->
                           IF v.t = "dict"
                           THEN KV(v.items[kept[n]].k, Without(v.items[kept[n]].v, below(kept[n])))
                           ELSE Without(v.items[kept[n]], below(kept[n]))]]

\* the subsets of S of at most n elements
RECURSIVE SubsetsUpTo(_, _)
SubsetsUpTo(S, n) ==
    IF n = 0 THEN {{}}
    ELSE LET smaller == SubsetsUpTo(S, n - 1)
         IN  smaller \cup { s \cup {x} : s \in smaller, x \in S }

SummaryDocs ==
    {EmptyDict} \cup UNION { { Without(d, gone) : gone \in SubsetsUpTo(PathsIn(d), MaxAbsent) }
                             : d \in FullDocs }

NoSummary == [exc |-> "not called", out |-> <<>>]

Summarize(name, printed) ==
    /\ spc = "call"
    /\ summarizer' = name
    /\ soutcome' = printed
    /\ spc' = "returned"
    /\ UNCHANGED <<sdata, avars, mvars>>

CallStopFinder == Summarize("stop_finder", summarize_stop_finder(sdata))
CallDepartureMon == Summarize("departure_mon", summarize_departure_mon(sdata))
CallTrip == Summarize("trip", summarize_trip(sdata))
CallAddInfo == Summarize("add_info", summarize_add_info(sdata))
CallCoord == Summarize("coord", summarize_coord(sdata))

(***************************************************************************)
(* main: the driver over the fixed mapping of logical names to filenames.  *)
(***************************************************************************)
Files ==
    << [name |-> "stop_finder",     filename |-> "example_stop_finder_1_epp.json"],
       [name |-> "departure_mon_1", filename |-> "example_departure_mon_1_central.json"],
       [name |-> "departure_mon_2", filename |-> "example_departure_mon_2_circular_quay.json"],
       [name |-> "trip_1",          filename |-> "example_trip_1.json"],
       [name |-> "trip_2",          filename |-> "example_trip_2.json"],
       [name |-> "add_info_1",      filename |-> "example_add_info_1_all_modes.json"],
       [name |-> "add_info_2",      filename |-> "example_add_info_2_only_trains.json"],
       [name |-> "coord_gis",       filename |-> "example_coord_1_gis_point.json"],
       [name |-> "coord_bus",       filename |-> "example_coord_2_bus_point.json"],
       [name |-> "coord_poi",       filename |-> "example_coord_3_poi_point.json"] >>

\* base_dir = os.path.dirname(os.path.abspath(__file__))
BaseDir == "/backend/docs/tfnsw/trip_planner"

\* os.path.join(base_dir, filename)
FilePath(i) == BaseDir \o "/" \o Files[i].filename

\* Variant: the tag has to be the whole name.
Contains_WholeName(tag, name) == tag = name

\* tag in name
Contains(tag, name) ==
    \E i \in 1..(Len(name) - Len(tag) + 1) : SubSeq(name, i, i + Len(tag) - 1) = tag

StartsWith(s, prefix) == Len(prefix) <= Len(s) /\ SubSeq(s, 1, Len(prefix)) = prefix

RECURSIVE Repeat(_, _)
\* s * n
Repeat(s, n) == IF n = 0 THEN "" ELSE s \o Repeat(s, n - 1)

\* f"{size / 1024:.1f}": size / 1024 is exact, and is rounded half to even
FormatKB(size) ==
    LET q == (size * 10) \div 1024
        r == (size * 10) % 1024
        tenths == IF r > 512 \/ (r = 512 /\ q % 2 = 1) THEN q + 1 ELSE q
    IN  ToString(tenths \div 10) \o "." \o ToString(tenths % 10)

\* the if/elif chain of main: the summarizer the name is routed to
SummarizerFor(name) ==
    IF Contains("stop_finder", name) THEN "stop_finder"
    ELSE IF Contains("departure_mon", name) THEN "departure_mon"
    ELSE IF Contains("trip", name) THEN "trip"
    ELSE IF Contains("add_info", name) THEN "add_info"
    ELSE IF Contains("coord", name) THEN "coord"
    ELSE "none"

CallSummarizer(which, d) ==
    CASE which = "stop_finder" -> summarize_stop_finder(d)
      [] which = "departure_mon" -> summarize_departure_mon(d)
      [] which = "trip" -> summarize_trip(d)
      [] which = "add_info" -> summarize_add_info(d)
      [] which = "coord" -> summarize_coord(d)
      [] OTHER -> [exc |-> "none", out |-> <<>>]

\* What the file system may hold for entry i: nothing, a file that cannot be
\* opened, a file that is not JSON, the captured response, or a JSON array.
FixtureOf(i) ==
    LET f == Files[i].filename
    IN  IF StartsWith(f, "example_stop_finder_") THEN StopFinderDoc
        ELSE IF StartsWith(f, "example_departure_mon_") THEN DepartureMonDoc
        ELSE IF StartsWith(f, "example_trip_") THEN TripDoc
        ELSE IF StartsWith(f, "example_add_info_") THEN AddInfoDoc
        ELSE CoordDoc

FixtureSize(i) == 1024 * i + 256 * (i % 4)

FileStates(i) ==
    { [status |-> "missing",    content |-> PyNone,       size |-> 0],
      [status |-> "unreadable", content |-> PyNone,       size |-> FixtureSize(i)],
      [status |-> "malformed",  content |-> PyNone,       size |-> FixtureSize(i)],
      [status |-> "ok",         content |-> FixtureOf(i), size |-> FixtureSize(i)],
      [status |-> "ok",         content |-> EmptyList,    size |-> 2] }

NoFile == [status |-> "none", content |-> PyNone, size |-> 0]

\* Variant: a missing file ends the loop.
SkipMissing_Break ==
    /\ pc = "for" /\ idx <= Len(Files)
    /\ \E f \in FileStates(idx) : f.status = "missing" /\ file' = f
    /\ stdout' = Append(stdout, "File not found: " \o Files[idx].filename)
    /\ trace' = Append(trace, [entry |-> idx, status |-> "missing",
                               event |-> "skipped", summarizer |-> "none"])
    /\ pc' = "done"
    /\ UNCHANGED <<idx, handles, pending, mdata, uncaught, avars, svars>>

\* if not os.path.exists(filepath): print(...); continue
SkipMissing ==
    /\ pc = "for" /\ idx <= Len(Files)
    /\ \E f \in FileStates(idx) : f.status = "missing" /\ file' = f
    /\ stdout' = Append(stdout, "File not found: " \o Files[idx].filename)
    /\ trace' = Append(trace, [entry |-> idx, status |-> "missing",
                               event |-> "skipped", summarizer |-> "none"])
    /\ idx' = idx + 1
    /\ UNCHANGED <<pc, handles, pending, mdata, uncaught, avars, svars>>

\* the file exists: the three header lines are printed
Announce ==
    /\ pc = "for" /\ idx <= Len(Files)
    /\ \E f \in FileStates(idx) : f.status # "missing" /\ file' = f
    /\ stdout' = stdout \o << "\n" \o Repeat("=", 60),
                              "ANALYZING: " \o Files[idx].filename,
                              Repeat("=", 60) >>
    /\ pc' = "open"
    /\ UNCHANGED <<idx, handles, pending, mdata, uncaught, trace, avars, svars>>

\* with open(filepath, 'r') as f: the file is opened
Open ==
    /\ pc = "open" /\ file.status # "unreadable"
    /\ handles' = handles \cup {FilePath(idx)}
    /\ pc' = "load"
    /\ UNCHANGED <<idx, file, pending, mdata, stdout, uncaught, trace, avars, svars>>

\* open raises: nothing catches it
OpenFails ==
    /\ pc = "open" /\ file.status = "unreadable"
    /\ uncaught' = "PermissionError"
    /\ pc' = "crashed"
    /\ UNCHANGED <<idx, file, handles, pending, mdata, stdout, trace, avars, svars>>

\* data = json.load(f)
Load ==
    /\ pc = "load" /\ file.status = "ok"
    /\ mdata' = file.content
    /\ pc' = "exit"
    /\ UNCHANGED <<idx, file, handles, pending, stdout, uncaught, trace, avars, svars>>

\* json.load raises inside the with block
LoadFails ==
    /\ pc = "load" /\ file.status = "malformed"
    /\ pending' = "JSONDecodeError"
    /\ pc' = "exit"
    /\ UNCHANGED <<idx, file, handles, mdata, stdout, uncaught, trace, avars, svars>>

\* Variant: the file is closed only when the block ends normally.
ExitWith_CloseOnSuccess ==
    /\ pc = "exit"
    /\ handles' = IF pending = "none" THEN handles \ {FilePath(idx)} ELSE handles
    /\ IF pending = "none"
       THEN pc' = "size" /\ uncaught' = uncaught
       ELSE pc' = "crashed" /\ uncaught' = pending
    /\ pending' = "none"
    /\ UNCHANGED <<idx, file, mdata, stdout, trace, avars, svars>>

\* Variant: the exception of the block is swallowed.
ExitWith_Swallow ==
    /\ pc = "exit"
    /\ handles' = handles \ {FilePath(idx)}
    /\ pc' = "size" /\ uncaught' = uncaught
    /\ pending' = "none"
    /\ UNCHANGED <<idx, file, mdata, stdout, trace, avars, svars>>

\* the end of the with block: the file is closed, and an exception raised in
\* the block goes on up
ExitWith ==
    /\ pc = "exit"
    /\ handles' = handles \ {FilePath(idx)}
    /\ IF pending = "none"
       THEN pc' = "size" /\ uncaught' = uncaught
       ELSE pc' = "crashed" /\ uncaught' = pending
    /\ pending' = "none"
    /\ UNCHANGED <<idx, file, mdata, stdout, trace, avars, svars>>

\* print(f"File size: {os.path.getsize(filepath) / 1024:.1f} KB")
PrintSize ==
    /\ pc = "size"
    /\ stdout' = Append(stdout, "File size: " \o FormatKB(file.size) \o " KB")
    /\ pc' = "dispatch"
    /\ UNCHANGED <<idx, file, handles, pending, mdata, uncaught, trace, avars, svars>>

\* the if/elif chain and the summarizer it calls
Dispatch ==
    /\ pc = "dispatch"
    /\ LET which == SummarizerFor(Files[idx].name)
           printed == CallSummarizer(which, mdata)
       IN  /\ stdout' = stdout \o printed.out
           /\ trace' = Append(trace, [entry |-> idx, status |-> file.status,
                                      event |-> IF which = "none" THEN "unmatched" ELSE "called",
                                      summarizer |-> which])
           /\ IF printed.exc = "none"
              THEN idx' = idx + 1 /\ pc' = "for" /\ uncaught' = uncaught
              ELSE idx' = idx /\ pc' = "crashed" /\ uncaught' = printed.exc
    /\ UNCHANGED <<file, handles, pending, mdata, avars, svars>>

\* the for loop is over
Finish ==
    /\ pc = "for" /\ idx > Len(Files)
    /\ pc' = "done"
    /\ UNCHANGED <<idx, file, handles, pending, mdata, stdout, uncaught, trace, avars, svars>>

(***************************************************************************)
(* Vocabulary of the properties: the keys of a document, each with its     *)
(* path string, the value it holds and its depth (top-level keys are at    *)
(* depth 0; a step into a nested mapping, or into element 0 of an array,   *)
(* is one more level).  The keys are listed in document order, a key       *)
(* before the keys below it.                                                *)
(***************************************************************************)
RECURSIVE KeyVisits(_, _, _, _)
RECURSIVE ItemVisits(_, _, _, _, _)

KeyVisits(obj, prefix, level, limit) ==
    IF level > limit \/ obj.t # "dict" THEN <<>>
    ELSE ItemVisits(obj.items, 1, prefix, level, limit)

ItemVisits(items, i, prefix, level, limit) ==
    IF i > Len(items) THEN <<>>
    ELSE LET path == PathOf(prefix, items[i].k)
             v == items[i].v
             below == IF v.t = "dict"
                      THEN KeyVisits(v, path, level + 1, limit)
                      ELSE IF v.t = "list" /\ Len(v.items) > 0
                      THEN KeyVisits(v.items[1], path \o "[0]", level + 1, limit)
                      ELSE <<>>
         IN  <<[path |-> path, v |-> v, level |-> level]>> \o below
                 \o ItemVisits(items, i + 1, prefix, level, limit)

\* every key of the document, whatever its depth
AllKeys == KeyVisits(doc, "", 0, MaxNest + 1)
\* the keys at depth <= max_depth
KeysWithinLimit == KeyVisits(doc, "", 0, max_depth)

Returned == apc = "returned"
Structure == result.structure

IsNonEmptyList(v) == v.t = "list" /\ Len(v.items) > 0

\* a later key of the sequence has the same path string as the j-th
OverwrittenLater(keys, j) ==
    \E j2 \in (j + 1)..Len(keys) : keys[j2].path = keys[j].path

ObjectText(n) == "object (" \o ToString(n) \o " keys)"
ArrayText(k) == "array (" \o ToString(k) \o " items)"

\* C1: analyze_json_structure returns a mapping and never raises, whatever
\* the document: missing keys, empty arrays, arrays of non-mappings, nesting
\* deeper than the limit, a top level that is an array or a scalar.
C1_NeverRaises ==
    Returned => /\ result.exc = "none"
                /\ \A p \in DOMAIN Structure : Len(Structure[p]) > 0

\* a returned call on a document whose keys go deeper than the limit and
\* end in an empty array
C1_Witness ==
    /\ Returned /\ result.exc = "none"
    /\ \E j \in 1..Len(AllKeys) :
          AllKeys[j].v = List(<<>>) /\ AllKeys[j].level > max_depth
    /\ Structure # EmptyMap

\* C2: the call terminates and every entry of the result is the entry of a
\* key at depth <= max_depth; no key deeper than the limit is recorded.
C2_DepthBounded ==
    Returned =>
        LET keys == AllKeys
            shallow == { j \in 1..Len(keys) : keys[j].level <= max_depth }
        IN  DOMAIN Structure \subseteq { keys[j].path : j \in shallow }

\* the default limit, a document with keys at the limit and beyond it
C2_Witness ==
    /\ Returned /\ max_depth = DefaultMaxDepth
    /\ \E j \in 1..Len(AllKeys) : AllKeys[j].level = max_depth + 1
    /\ \E j \in 1..Len(AllKeys) :
          AllKeys[j].level = max_depth /\ AllKeys[j].path \in DOMAIN Structure

\* C3 as stated: every key holding a dictionary of n keys has the entry
\* "object (n keys)" in the result.
C3_Original ==
    Returned =>
        \A j \in 1..Len(AllKeys) :
            AllKeys[j].v.t = "dict" =>
                /\ AllKeys[j].path \in DOMAIN Structure
                /\ Structure[AllKeys[j].path] = ObjectText(Len(AllKeys[j].v.items))

\* C3 amended: every key at depth <= max_depth holding a dictionary of n keys
\* has an entry in the result, and the entry is "object (n keys)" unless a
\* later key has the same path string.
C3_ObjectRecorded ==
    Returned =>
        \A j \in 1..Len(KeysWithinLimit) :
            LET e == KeysWithinLimit[j]
            IN  e.v.t = "dict" =>
                  /\ e.path \in DOMAIN Structure
                  /\ \/ Structure[e.path] = ObjectText(Len(e.v.items))
                     \/ OverwrittenLater(KeysWithinLimit, j)

\* dictionaries of 0, 1 and 2 keys recorded, one of them below the top level
C3_Witness ==
    /\ Returned
    /\ \A n \in 0..2 :
          \E j \in 1..Len(KeysWithinLimit) :
              LET e == KeysWithinLimit[j]
              IN  /\ e.v.t = "dict" /\ Len(e.v.items) = n
                  /\ e.path \in DOMAIN Structure
                  /\ Structure[e.path] = ObjectText(n)
    /\ \E j \in 1..Len(KeysWithinLimit) :
          /\ KeysWithinLimit[j].v.t = "dict"
          /\ KeysWithinLimit[j].level > 0

\* the keys of element 0 of the array held by key e all have entries under
\* "<path>[0]"
FirstElementRecorded(e) ==
    \A i \in 1..Len(e.v.items[1].items) :
        PathOf(e.path \o "[0]", e.v.items[1].items[i].k) \in DOMAIN Structure

\* C4 as stated: every key holding a non-empty array of k items has the
\* entry "array (k items)", and the keys of element 0 have entries under
\* "<path>[0]" whenever element 0 is a mapping.
C4_Original ==
    Returned =>
        \A j \in 1..Len(AllKeys) :
            LET e == AllKeys[j]
            IN  IsNonEmptyList(e.v) =>
                  /\ e.path \in DOMAIN Structure
                  /\ Structure[e.path] = ArrayText(Len(e.v.items))
                  /\ e.v.items[1].t = "dict" => FirstElementRecorded(e)

\* C4 amended: every key at depth <= max_depth holding a non-empty array of
\* k items has an entry, which is "array (k items)" unless a later key has
\* the same path string; the keys of element 0 have entries under
\* "<path>[0]" when element 0 is a mapping and the array's key is at depth
\* < max_depth; and every entry of the result is the entry of a key reached
\* through mappings and through element 0 of arrays only, so an element at
\* index 1 or above, or an element 0 that is not a mapping, adds nothing.
C4_ArrayRecorded ==
    Returned =>
        /\ \A j \in 1..Len(KeysWithinLimit) :
              LET e == KeysWithinLimit[j]
              IN  IsNonEmptyList(e.v) =>
                    /\ e.path \in DOMAIN Structure
                    /\ \/ Structure[e.path] = ArrayText(Len(e.v.items))
                       \/ OverwrittenLater(KeysWithinLimit, j)
                    /\ (e.v.items[1].t = "dict" /\ e.level < max_depth)
                          => FirstElementRecorded(e)
        /\ DOMAIN Structure = { KeysWithinLimit[j].path : j \in 1..Len(KeysWithinLimit) }

\* an array of two items whose element 1 is a non-empty mapping and element
\* 0 is not, and an array whose element 0 is a mapping with a recorded key
C4_Witness ==
    /\ Returned
    /\ \E j \in 1..Len(KeysWithinLimit) :
          LET e == KeysWithinLimit[j]
          IN  /\ e.v.t = "list" /\ Len(e.v.items) = 2
              /\ e.v.items[2].t = "dict" /\ Len(e.v.items[2].items) > 0
              /\ Structure[e.path] = ArrayText(2)
    /\ \E j \in 1..Len(KeysWithinLimit) :
          LET e == KeysWithinLimit[j]
          IN  /\ IsNonEmptyList(e.v) /\ e.v.items[1].t = "dict"
              /\ Len(e.v.items[1].items) > 0
              /\ e.level < max_depth
              /\ FirstElementRecorded(e)

\* C10: a top-level document that is not a mapping (an array, even of
\* mappings, or a scalar) gives the empty mapping.
C10_TopLevelNotMapping ==
    (Returned /\ doc.t # "dict") => result = Ok(EmptyMap)

\* a top-level array whose element 0 is a non-empty mapping
C10_Witness ==
    /\ Returned /\ doc.t = "list" /\ Len(doc.items) > 0
    /\ doc.items[1].t = "dict" /\ Len(doc.items[1].items) > 0
    /\ max_depth > 0
    /\ result = Ok(EmptyMap)

(***************************************************************************)
(* Properties of the summarizers.                                          *)
(***************************************************************************)
SReturned == spc = "returned"

\* what each summarizer prints for a mapping with none of its keys
PlaceholderLines(which) ==
    CASE which = "stop_finder" ->
            <<"\n=== STOP FINDER RESPONSE ===", "Version: None", "Locations count: 0">>
      [] which = "departure_mon" ->
            <<"\n=== DEPARTURE MONITOR RESPONSE ===", "Version: None",
              "Locations count: 0", "Stop events count: 0">>
      [] which = "trip" ->
            <<"\n=== TRIP RESPONSE ===", "Version: None", "Journeys count: 0">>
      [] which = "add_info" ->
            <<"\n=== ADD_INFO (SERVICE ALERTS) RESPONSE ===", "Version: None",
              "Timestamp: None", "Current alerts count: 0",
              "Total affected stops: 0", "Total affected lines: 0">>
      [] OTHER ->
            <<"\n=== COORD (NEARBY) RESPONSE ===", "Version: None", "Locations count: 0">>

Lines(out) == { out[i] : i \in 1..Len(out) }

\* the document has a first location, and that location has no properties
FirstLocationWithoutProperties(d) ==
    /\ HasKey(d, "locations")
    /\ Lookup(d, "locations").t = "list"
    /\ Len(Lookup(d, "locations").items) > 0
    /\ Lookup(d, "locations").items[1].t = "dict"
    /\ ~HasKey(Lookup(d, "locations").items[1], "properties")

\* C7: each of the five summarizers completes without raising on every
\* mapping, whichever of the keys it looks up are absent; an absent field is
\* printed as None, an absent array counts 0 items, and an absent nested
\* object is read as an empty mapping.
C7_SummarizersNeverRaise ==
    SReturned =>
        /\ soutcome.exc = "none"
        /\ ~HasKey(sdata, "version") => soutcome.out[2] = "Version: None"
        /\ sdata = EmptyDict => soutcome.out = PlaceholderLines(summarizer)
        /\ (summarizer = "coord" /\ FirstLocationWithoutProperties(sdata)) =>
              {"  - properties.distance: None", "  - properties keys: []"}
                  \subseteq Lines(soutcome.out)

\* summarize_coord has returned on a response whose first location has no
\* properties and no id
C7_Witness ==
    /\ SReturned /\ summarizer = "coord" /\ soutcome.exc = "none"
    /\ FirstLocationWithoutProperties(sdata)
    /\ ~HasKey(Lookup(sdata, "locations").items[1], "id")
    /\ "  - id: None" \in Lines(soutcome.out)

(***************************************************************************)
(* Properties of the driver.                                               *)
(***************************************************************************)
Tags == <<"stop_finder", "departure_mon", "trip", "add_info", "coord">>

\* tag occurs in name
Occurs(tag, name) ==
    \E a \in 0..Len(name) :
        a + Len(tag) <= Len(name) /\ SubSeq(name, a + 1, a + Len(tag)) = tag

\* the first tag, in the order of Tags, that occurs in name
FirstMatchingTag(name) ==
    LET matching == { i \in 1..Len(Tags) : Occurs(Tags[i], name) }
    IN  IF matching = {} THEN "none"
        ELSE Tags[CHOOSE i \in matching : \A j \in matching : i <= j]

NotFoundLines == { i \in 1..Len(stdout) : StartsWith(stdout[i], "File not found: ") }
Skipped == { k \in 1..Len(trace) : trace[k].event = "skipped" }

\* every entry examined so far has one record, in the order of the list
OneRecordPerEntry ==
    /\ \A k \in 1..Len(trace) : trace[k].entry = k
    /\ pc \in {"for", "done"} => Len(trace) = idx - 1

\* C5: for each missing file the driver prints "File not found: <filename>",
\* calls no summarizer for it, and goes on with the next entry of the list:
\* a missing file never ends the run, and a run that ends normally has gone
\* through all ten entries in order.
C5_MissingFileSkipped ==
    /\ OneRecordPerEntry
    /\ \A k \in 1..Len(trace) :
          trace[k].status = "missing" =>
              /\ trace[k].event = "skipped" /\ trace[k].summarizer = "none"
              /\ \E i \in NotFoundLines :
                    stdout[i] = "File not found: " \o Files[k].filename
    /\ Cardinality(NotFoundLines) = Cardinality(Skipped)
    /\ pc = "crashed" => file.status # "missing"
    /\ pc = "done" => Len(trace) = Len(Files) /\ idx = Len(Files) + 1

\* a finished run in which the first and the last file were missing and the
\* second was summarized
C5_Witness ==
    /\ pc = "done"
    /\ trace[1].status = "missing"
    /\ trace[2].event = "called"
    /\ trace[Len(Files)].status = "missing"

\* C6: every entry whose file exists and parses is handed to exactly one
\* summarizer: the first of stop_finder, departure_mon, trip, add_info, coord
\* whose tag occurs in the logical name, which is the category that the
\* filename names.
C6_DispatchByCategory ==
    /\ OneRecordPerEntry
    /\ \A k \in 1..Len(trace) :
          trace[k].status = "ok" =>
              /\ trace[k].event = "called"
              /\ trace[k].summarizer = FirstMatchingTag(Files[k].name)
              /\ StartsWith(Files[k].filename, "example_" \o trace[k].summarizer \o "_")

\* a finished run in which all ten files were summarized
C6_Witness ==
    /\ pc = "done"
    /\ \A k \in 1..Len(Files) : trace[k].event = "called"

\* C8: a file that exists but cannot be read or parsed ends the run with the
\* exception uncaught: no summarizer is called for the entry, nothing more is
\* printed, and the loop does not go on to a later entry.
C8_ParseFailureTerminates ==
    (file.status \in {"malformed", "unreadable"} /\ pc \notin {"open", "load", "exit"}) =>
        /\ pc = "crashed"
        /\ uncaught \in {"JSONDecodeError", "PermissionError"}
        /\ Len(trace) = idx - 1
        /\ stdout[Len(stdout)] = Repeat("=", 60)

\* the run has ended on a malformed file after a summarized one, with later
\* entries left
C8_Witness ==
    /\ pc = "crashed" /\ file.status = "malformed" /\ uncaught = "JSONDecodeError"
    /\ idx > 1 /\ idx < Len(Files)
    /\ trace[idx - 1].event = "called"

\* C9: at most one fixture file is open in any state; the file of an entry is
\* open only between open and the end of the with block, and is closed before
\* the summarizer runs, before the next entry is examined and when the run
\* ends on an exception raised while parsing.
C9_HandleReleased ==
    /\ Cardinality(handles) <= 1
    /\ pc \in {"load", "exit"} => handles = {FilePath(idx)}
    /\ pc \notin {"load", "exit"} => handles = {}

\* json.load has raised on the third file, and the run has ended with no
\* file open
C9_Witness ==
    /\ pc = "crashed" /\ uncaught = "JSONDecodeError" /\ idx = 3
    /\ handles = {}

(***************************************************************************)
(* Specifications.  Each applies one part of the program; the variables   *)
(* of the other parts stay as they are.                                    *)
(***************************************************************************)
vars == <<avars, svars, mvars>>

\* analyze_json_structure is about to be called on a document
AInit ==
    /\ doc \in Documents(MaxNest)
    /\ max_depth \in (0..MaxLimit) \cup {DefaultMaxDepth}
    /\ result = NotCalled
    /\ apc = "call"
    /\ sdata = EmptyDict /\ summarizer = "none" /\ soutcome = NoSummary /\ spc = "idle"
    /\ idx = 1 /\ pc = "idle" /\ file = NoFile /\ handles = {} /\ pending = "none"
    /\ mdata = PyNone /\ stdout = <<>> /\ uncaught = "none" /\ trace = <<>>

ANext == Analyze

SpecAnalyze == AInit /\ [][ANext]_vars

\* a summarizer is about to be called on a document
SInit ==
    /\ sdata \in SummaryDocs
    /\ summarizer = "none"
    /\ soutcome = NoSummary
    /\ spc = "call"
    /\ doc = EmptyDict /\ max_depth = DefaultMaxDepth /\ result = NotCalled /\ apc = "idle"
    /\ idx = 1 /\ pc = "idle" /\ file = NoFile /\ handles = {} /\ pending = "none"
    /\ mdata = PyNone /\ stdout = <<>> /\ uncaught = "none" /\ trace = <<>>

SNext ==
    \/ CallStopFinder
    \/ CallDepartureMon
    \/ CallTrip
    \/ CallAddInfo
    \/ CallCoord

SpecSummarize == SInit /\ [][SNext]_vars

\* main is about to enter its for loop
Init ==
    /\ idx = 1
    /\ pc = "for"
    /\ file = NoFile
    /\ handles = {}
    /\ pending = "none"
    /\ mdata = PyNone
    /\ stdout = <<>>
    /\ uncaught = "none"
    /\ trace = <<>>
    /\ doc = EmptyDict /\ max_depth = DefaultMaxDepth /\ result = NotCalled /\ apc = "idle"
    /\ sdata = EmptyDict /\ summarizer = "none" /\ soutcome = NoSummary /\ spc = "idle"

Next ==
    \/ SkipMissing
    \/ Announce
    \/ Open
    \/ OpenFails
    \/ Load
    \/ LoadFails
    \/ ExitWith
    \/ PrintSize
    \/ Dispatch
    \/ Finish

Spec == Init /\ [][Next]_vars

====
